---------------------------- MODULE Spec2Model ----------------------------
(***************************************************************************)
(* LoopAudioTool (src/main.js): trimming a decoded recording to a loop     *)
(* region whose ends are moved to nearby zero crossings, downmixing it to  *)
(* mono, encoding it (WAV / Ogg Vorbis / MP3) and offering the result as a *)
(* download, for every selected file in turn.                              *)
(*                                                                         *)
(* Numbers.  JavaScript floats are modelled exactly on the values used:    *)
(*   - a sample of channel data is a numerator over FloatDen (4 is 1.0);   *)
(*     a sample the program computes is num / 2^exp, rounded as a          *)
(*     Float32Array element is                                             *)
(*   - a time in seconds is the numerator of a fraction over TimeDen       *)
(*   - a value parsed from a form field is [nan |-> BOOLEAN, v |-> Int]    *)
(* Times and channel data are dyadic, so their products are exact in       *)
(* binary floating point, as they are here.                                *)
(* Arrays are 0-based in the source and 1-based here: samples[i] of the    *)
(* source is samples[i + 1] of the model.                                  *)
(***************************************************************************)
EXTENDS Integers, Sequences, FiniteSets, TLC

VARIABLES
  dom,        \* the form: selected files, field texts, loaded encoder libraries
  logText,    \* logEl.textContent, as the sequence of its lines
  downloads,  \* the downloads triggered by a.click(), in order
  inv,        \* the invocations of the run handler, in click order
  input,      \* argument of the function under study (function specifications)
  output      \* its result, <<>> before it has been applied

vars == <<dom, logText, downloads, inv, input, output>>

\* ------------------------------------------------------------------ bounds
MaxLen == 4
MaxRadius == 2
MaxFiles == 2
MaxClicks == 2

\* --------------------------------------------------------- representation
FloatDen == 4
FloatExp == 2
TimeDen == 16384
DefaultRadius == 4000
DefaultQuality == 3
WavHeaderBytes == 44

Num(n) == [nan |-> FALSE, v |-> n]
NaN == [nan |-> TRUE, v |-> 0]

Max(a, b) == IF a >= b THEN a ELSE b
Min(a, b) == IF a <= b THEN a ELSE b
Abs(a) == IF a < 0 THEN -a ELSE a


\* ============================================================ zero crossing
\* main.js:23  the pair (s1, s2) counts as a zero crossing
IsZeroCross(s1, s2) ==
  s1 = 0 \/ s2 = 0 \/ (s1 > 0 /\ s2 < 0) \/ (s1 < 0 /\ s2 > 0)

\* faulty variant of Closer: a tie replaces the crossing found first
Closer_orEqual(dist, bestDist) == bestDist = <<>> \/ dist <= bestDist[1]

\* main.js:17,26  dist < bestDist, where bestDist starts as Infinity (<<>>)
Closer(dist, bestDist) == bestDist = <<>> \/ dist < bestDist[1]

\* faulty variant of InitialBest: the fallback index starts at 0
InitialBest_zero(targetIndex) == 0

\* main.js:16  let bestIndex = targetIndex
InitialBest(targetIndex) == targetIndex

\* faulty variant of ScanStart: the window opens one pair too early
ScanStart_early(targetIndex, radius) == Max(0, targetIndex - radius - 1)

\* main.js:13  const start = Math.max(0, targetIndex - searchRadius)
ScanStart(targetIndex, radius) == Max(0, targetIndex - radius)

\* main.js:14  const end = Math.min(n - 2, targetIndex + searchRadius)
ScanEnd(n, targetIndex, radius) == Min(n - 2, targetIndex + radius)

\* main.js:19-31  the loop, from i to end
RECURSIVE ScanZeroCross(_, _, _, _, _, _)
ScanZeroCross(samples, targetIndex, i, end, bestIndex, bestDist) ==
  IF i > end THEN bestIndex
  ELSE LET dist == Abs(i - targetIndex)
       IN IF IsZeroCross(samples[i + 1], samples[i + 2]) /\ Closer(dist, bestDist)
          THEN ScanZeroCross(samples, targetIndex, i + 1, end, i, <<dist>>)
          ELSE ScanZeroCross(samples, targetIndex, i + 1, end, bestIndex, bestDist)

\* main.js:9-33.  searchRadius is a parsed number; with NaN, start and end are
\* NaN, `i <= end` is false at once and the loop body never runs.
findNearestZeroCross(samples, targetIndex, searchRadius) ==
  LET n == Len(samples)
  IN IF n < 2 THEN targetIndex
     ELSE IF searchRadius.nan THEN InitialBest(targetIndex)
     ELSE ScanZeroCross(samples, targetIndex,
                        ScanStart(targetIndex, searchRadius.v),
                        ScanEnd(n, targetIndex, searchRadius.v),
                        InitialBest(targetIndex), <<>>)

\* ============================================================ downmix
\* ---- the arithmetic of line 48.  A Number (a double) or a Float32Array
\* element, as it occurs there, is a sign and a magnitude; the magnitude is a
\* natural number of units 2^-FracBits, written in limbs of LimbBits bits,
\* least significant first, the last limb holding what is left.
LimbBits == 15
LimbBase == 32768
FracLimbs == 5
Limbs == 6
FracBits == LimbBits * FracLimbs

BigZero == <<0, 0, 0, 0, 0, 0>>
Big == Seq(Nat)

\* The number of bits of a natural number (0 for 0)
BitLen[n \in Nat] == IF n = 0 THEN 0 ELSE 1 + BitLen[n \div 2]

\* The number of bits of a magnitude
BigBitLen[v \in Big] ==
  LET used == {i \in 1..Limbs : v[i] # 0}
  IN IF used = {} THEN 0
     ELSE LET top == CHOOSE i \in used : \A j \in used : j <= i
          IN LimbBits * (top - 1) + BitLen[v[top]]

\* Bit number pos (from 0) of a magnitude, and whether a bit below it is set
BigBit[v \in Big, pos \in Nat] == (v[pos \div LimbBits + 1] \div 2^(pos % LimbBits)) % 2

BigAnyBelow[v \in Big, pos \in Nat] ==
  \/ \E i \in 1..(pos \div LimbBits) : v[i] # 0
  \/ v[pos \div LimbBits + 1] % 2^(pos % LimbBits) # 0

BigLess[a \in Big, b \in Big] ==
  \E i \in 1..Limbs : a[i] < b[i] /\ \A j \in (i + 1)..Limbs : a[j] = b[j]

\* The limbs i.. of a + b + carry
AddFrom[a \in Big, b \in Big, i \in Nat, carry \in Nat] ==
  IF i = Limbs THEN << a[i] + b[i] + carry >>
  ELSE << (a[i] + b[i] + carry) % LimbBase >>
       \o AddFrom[a, b, i + 1, (a[i] + b[i] + carry) \div LimbBase]

\* a + b
BigAdd[a \in Big, b \in Big] == AddFrom[a, b, 1, 0]

\* The limbs i.. of a - b - borrow
SubFrom[a \in Big, b \in Big, i \in Nat, borrow \in Nat] ==
  IF i = Limbs THEN << a[i] - b[i] - borrow >>
  ELSE << (a[i] - b[i] - borrow + LimbBase) % LimbBase >>
       \o SubFrom[a, b, i + 1, IF a[i] - b[i] - borrow < 0 THEN 1 ELSE 0]

\* a - b, for b not above a
BigSub[a \in Big, b \in Big] == SubFrom[a, b, 1, 0]

\* v rounded at bit k > 0: the bits below k go, and one unit of bit k is added
\* when they are above half a unit, or half a unit and bit k is 1
RoundAt[v \in Big, sticky \in BOOLEAN, k \in Nat] ==
  LET j == k \div LimbBits + 1
      unit == 2^(k % LimbBits)
      kept == SubSeq(BigZero, 1, j - 1) \o << v[j] - (v[j] % unit) >> \o SubSeq(v, j + 1, Limbs)
      ulp == SubSeq(BigZero, 1, j - 1) \o << unit >> \o SubSeq(BigZero, j + 1, Limbs)
  IN IF BigBit[v, k - 1] = 1 /\ (sticky \/ BigAnyBelow[v, k - 1] \/ BigBit[v, k] = 1)
     THEN BigAdd[kept, ulp]
     ELSE kept

\* Rounding to p significant bits, to nearest, ties to even: what a double
\* (p = 53) or a Float32Array element (p = 24) keeps of a result.  sticky says
\* that the exact result is above v by less than one unit.
RoundBits[v \in Big, sticky \in BOOLEAN, p \in Nat] ==
  IF BigBitLen[v] <= p THEN v ELSE RoundAt[v, sticky, BigBitLen[v] - p]

\* The first k fraction limbs of r / den (r < den), and what is left of r
QuotientLimbs[r \in Nat, den \in Nat, k \in Nat] ==
  IF k = 0 THEN <<>>
  ELSE QuotientLimbs[(r * LimbBase) % den, den, k - 1] \o << (r * LimbBase) \div den >>

QuotientRem[r \in Nat, den \in Nat, k \in Nat] ==
  IF k = 0 THEN r ELSE QuotientRem[(r * LimbBase) % den, den, k - 1]

\* The double a / den for naturals a and den, 0 < den <= 2 * LimbBase: the
\* quotient, limb by limb, rounded to 53 bits
BigQuotient[a \in Nat, den \in Nat] ==
  RoundBits[QuotientLimbs[a % den, den, FracLimbs] \o << a \div den >>,
            QuotientRem[a % den, den, FracLimbs] # 0, 53]

\* A signed value; NaN is what arithmetic on undefined gives
Signed[neg \in BOOLEAN, mag \in Big] == [nan |-> FALSE, neg |-> neg /\ mag # BigZero, mag |-> mag]
SignedNaN == [nan |-> TRUE, neg |-> FALSE, mag |-> BigZero]
SignedValues == [nan : BOOLEAN, neg : BOOLEAN, mag : Big]

\* x + y, exact
SignedAdd[x \in SignedValues, y \in SignedValues] ==
  IF x.nan \/ y.nan THEN SignedNaN
  ELSE IF x.neg = y.neg THEN Signed[x.neg, BigAdd[x.mag, y.mag]]
  ELSE IF BigLess[x.mag, y.mag] THEN Signed[y.neg, BigSub[y.mag, x.mag]]
  ELSE Signed[x.neg, BigSub[x.mag, y.mag]]

\* The Float32Array element a double becomes when it is stored
StoreFloat32[x \in SignedValues] ==
  IF x.nan THEN SignedNaN
  ELSE Signed[x.neg, RoundBits[RoundBits[x.mag, FALSE, 53], FALSE, 24]]

\* main.js:48  mono[i] += data[i] / numChannels for one i: data[i] is a
\* numerator over FloatDen; the quotient and the sum are doubles, the
\* element stored is rounded to 24 bits
MixSample[acc \in SignedValues, d \in Int, numChannels \in Nat] ==
  StoreFloat32[SignedAdd[acc, Signed[d < 0, BigQuotient[Abs(d), FloatDen * numChannels]]]]

\* A sample of a Float32Array: NaN, or the value num / 2^exp
Float(num, exp) == [nan |-> FALSE, num |-> num, exp |-> exp]
FloatNaN == [nan |-> TRUE, num |-> 0, exp |-> 0]

\* The lowest bit of a magnitude that is set, at most FracBits
LowBit[v \in Big] ==
  CHOOSE z \in 0..FracBits : ~BigAnyBelow[v, z] /\ (z = FracBits \/ BigBit[v, z] = 1)

\* The limbs from bit low on, as one number (the magnitude has at most 24 bits)
NumFrom[v \in Big, low \in Nat] ==
  LET j == low \div LimbBits + 1
      t == low % LimbBits
      Part(i, shift) == IF i > Limbs THEN 0 ELSE IF v[i] = 0 THEN 0 ELSE v[i] * 2^shift
  IN v[j] \div 2^t + Part(j + 1, LimbBits - t) + Part(j + 2, 2 * LimbBits - t)

FloatFrom[x \in SignedValues, low \in Nat] ==
  Float(IF x.neg THEN -NumFrom[x.mag, low] ELSE NumFrom[x.mag, low], FracBits - low)

\* The Float32Array element a signed value of at most 24 bits is, in lowest
\* terms (integers keep exponent 0)
SignedToFloat[x \in SignedValues] ==
  IF x.nan THEN FloatNaN
  ELSE IF x.mag = BigZero THEN Float(0, 0)
  ELSE FloatFrom[x, LowBit[x.mag]]

\* main.js:42,46  typedArray.subarray(begin, end): a negative index counts from
\* the end, both are clamped to the array
Subarray(data, begin, end) ==
  LET Rel(x) == IF x < 0 THEN Max(Len(data) + x, 0) ELSE Min(x, Len(data))
  IN [i \in 1..Max(0, Rel(end) - Rel(begin)) |-> data[Rel(begin) + i]]

\* main.js:47-49  the loop over i for one channel; past the end of data,
\* data[i] is undefined and the element becomes NaN
MixPass[mono \in Seq(SignedValues), data \in Seq(Int), numChannels \in Nat, i \in Nat] ==
  IF i > Len(mono) THEN <<>>
  ELSE << IF i <= Len(data) THEN MixSample[mono[i], data[i], numChannels] ELSE SignedNaN >>
       \o MixPass[mono, data, numChannels, i + 1]

\* main.js:45-50  the loop over the channels ch..last
RECURSIVE MixChannels(_, _, _, _, _)
MixChannels(channels, ch, startSample, endSample, mono) ==
  IF ch > Len(channels) THEN mono
  ELSE MixChannels(channels, ch + 1, startSample, endSample,
                   MixPass[mono, Subarray(channels[ch], startSample, endSample) \o <<>>,
                           Len(channels), 1])

\* The Float32Array of the elements mixed
ToFloats[mixed \in Seq(SignedValues)] == [i \in 1..Len(mixed) |-> SignedToFloat[mixed[i]]] \o <<>>

\* new Float32Array(length) with a negative length throws
RangeError == << "RangeError" >>

\* main.js:36-53  the new Float32Array of end - start zeros: the channel is
\* copied into it when there is one, the channels are mixed into it otherwise
extractMonoSamples(buffer, startSample, endSample) ==
  LET numChannels == Len(buffer.channels)
      length == endSample - startSample
      zeros == [i \in 1..length |-> Signed[FALSE, BigZero]] \o <<>>
      ch == Subarray(buffer.channels[1], startSample, endSample)
      mixed == MixChannels(buffer.channels, 1, startSample, endSample, zeros)
  IN IF length < 0 THEN RangeError
     ELSE IF numChannels = 1
     THEN [i \in 1..length |-> IF i <= Len(ch) THEN Float(ch[i], FloatExp) ELSE Float(0, 0)]
     ELSE ToFloats[mixed]

\* ============================================================ WAV
\* ToInt16: what an Int16Array element / DataView.setInt16 keeps of an integer
ToInt16(x) == ((x + 32768) % 65536) - 32768

\* The whole part of (a / 2^exp) * 0x7fff for a natural a below 2^exp: with
\* a = q * 2^(exp - 15) + r it is q when r * 2^15 >= a, and q - 1 otherwise
Scale7fff(a, exp) ==
  IF exp <= 15 THEN (a * 32767) \div 2^exp
  ELSE IF exp > 45 THEN 0
  ELSE LET q == a \div 2^(exp - 15)
           r == a % 2^(exp - 15)
       IN IF r >= (a + 32767) \div 32768 THEN q ELSE q - 1

\* The whole part of (a / 2^exp) * 0x8000 for a natural a below 2^exp
Scale8000(a, exp) ==
  IF exp <= 15 THEN a * 2^(15 - exp)
  ELSE IF exp > 45 THEN 0
  ELSE a \div 2^(exp - 15)

\* Math.max(-1, Math.min(1, s)) gives -1 or 1
AtOrBelowMinusOne(s) == s.exp <= 30 /\ s.num <= -(2^s.exp)
AtOrAboveOne(s) == s.exp <= 30 /\ s.num >= 2^s.exp

\* faulty variant of Quantize: one scale, 0x8000, for both signs
Quantize_oneScale(s) ==
  IF s.nan THEN 0
  ELSE IF AtOrBelowMinusOne(s) THEN ToInt16(-32768)
  ELSE IF AtOrAboveOne(s) THEN ToInt16(32768)
  ELSE IF s.num < 0 THEN ToInt16(-Scale8000(-s.num, s.exp))
  ELSE ToInt16(Scale8000(s.num, s.exp))

\* main.js:60-61 (and 120-121)  clamp to [-1, 1]; s < 0 ? s * 0x8000 : s * 0x7fff,
\* stored into an Int16Array, which drops the fraction (and makes NaN 0)
Quantize(s) ==
  IF s.nan THEN 0
  ELSE IF AtOrBelowMinusOne(s) THEN ToInt16(-32768)
  ELSE IF AtOrAboveOne(s) THEN ToInt16(32767)
  ELSE IF s.num < 0 THEN ToInt16(-Scale8000(-s.num, s.exp))
  ELSE ToInt16(Scale7fff(s.num, s.exp))

\* main.js:58-62  the Int16Array pcm16
FloatToPcm16(samples) == [i \in 1..Len(samples) |-> Quantize(samples[i])]

\* DataView.setUint32(off, v, true).  Every value written here is below 2^31
\* (the range of a 32-bit signed integer), so ToUint32 leaves it as it is.
Uint32LE(v) ==
  <<v % 256, (v \div 256) % 256, (v \div 65536) % 256, (v \div 16777216) % 256>>

\* DataView.setUint16(off, v, true)
Uint16LE(v) == LET u == v % 65536 IN <<u % 256, u \div 256>>

\* DataView.setInt16(off, v, true): two's complement
Int16LE(v) == Uint16LE(v)

\* main.js:91-93  the samples, two bytes each
RECURSIVE PcmBytes(_)
PcmBytes(pcm16) ==
  IF pcm16 = <<>> THEN <<>> ELSE Int16LE(Head(pcm16)) \o PcmBytes(Tail(pcm16))

\* main.js:56-96  the bytes of the Blob
monoFloatToWavBlob(samples, sampleRate) ==
  LET pcm16 == FloatToPcm16(samples)
      byteRate == sampleRate * 2
      blockAlign == 2
  IN <<82, 73, 70, 70>>                    \* "RIFF"
     \o Uint32LE(36 + Len(pcm16) * 2)
     \o <<87, 65, 86, 69>>                 \* "WAVE"
     \o <<102, 109, 116, 32>>              \* "fmt "
     \o Uint32LE(16)
     \o Uint16LE(1)
     \o Uint16LE(1)
     \o Uint32LE(sampleRate)
     \o Uint32LE(byteRate)
     \o Uint16LE(blockAlign)
     \o Uint16LE(16)
     \o <<100, 97, 116, 97>>               \* "data"
     \o Uint32LE(Len(pcm16) * 2)
     \o PcmBytes(pcm16)


\* ============================================================ form and files
\* A file name is its sequence of characters.
NoName == <<>>

\* A log line, structured: what kind of line it is, the file or download name
\* it shows (NoName when it shows none), its variable text and its numbers.
Line(tag, name, text, nums) == [tag |-> tag, name |-> name, text |-> text, nums |-> nums]
NoLine == Line("", NoName, "", <<>>)

\* The binary expansion of r / den (r < den), bit by bit, after `sig`
\* significant bits of the quotient of which the last is `last`: TRUE when
\* rounding the quotient to 53 significant bits (nearest, ties to even) does
\* not go below it.
QuotientBits[r \in Nat, den \in Nat, sig \in Nat, last \in Nat] ==
  IF r = 0 THEN TRUE
  ELSE IF sig = 53
  THEN IF 2 * r > den THEN TRUE
       ELSE IF 2 * r < den THEN FALSE
       ELSE last = 1
  ELSE LET bit == IF 2 * r >= den THEN 1 ELSE 0
       IN QuotientBits[2 * r - bit * den, den,
                       IF sig > 0 \/ bit = 1 THEN sig + 1 ELSE 0, bit]

\* The Number a / den (a >= 0, den > 0), a double, is not below the quotient
DoubleNotBelow(a, den) ==
  QuotientBits[a % den, den, BitLen[a \div den], (a \div den) % 2]

\* toFixed(3) digits of the Number a / den (a >= 0), as thousandths: the
\* nearest thousandth to the double, the larger one when it is half way.
\* The double differs from the quotient by far less than the quotient's
\* distance to a half way point, unless the quotient is one itself.
RoundMs(a, den) ==
  LET n == (a * 1000) \div den
      rem == (a * 1000) % den
  IN IF 2 * rem < den THEN n
     ELSE IF 2 * rem > den THEN n + 1
     ELSE IF DoubleNotBelow(a, den) THEN n + 1 ELSE n

\* main.js:165-166  Number.prototype.toFixed(3) of the Number num / den:
\* <<1 when the text starts with "-" (the Number is below 0), the thousandths
\* of its digits>>
ToFixed3(num, den) == << IF num < 0 THEN 1 ELSE 0, RoundMs(Abs(num), den) >>

\* main.js:226  a Number in a template literal: <<1, 0>> is "NaN", <<0, v>> is v
NumberToString(n) == IF n.nan THEN <<1, 0>> ELSE <<0, n.v>>

\* main.js:189  file.name.replace(/\.[^/.]+$/, ""): the last "." and what follows
\* it go, when at least one character follows and none of them is "/".
StripExtension(name) ==
  LET dots == {p \in 1..Len(name) : name[p] = "."}
  IN IF dots = {} THEN name
     ELSE LET p == CHOOSE q \in dots : \A r \in dots : r <= q
          IN IF p < Len(name) /\ \A r \in (p + 1)..Len(name) : name[r] # "/"
             THEN SubSeq(name, 1, p - 1)
             ELSE name

\* main.js:187  the extension of the output format
Extension(outFormat) ==
  IF outFormat = "wav" THEN <<".", "w", "a", "v">>
  ELSE IF outFormat = "mp3" THEN <<".", "m", "p", "3">>
  ELSE <<".", "o", "g", "g">>

\* main.js:189  a.download
DownloadName(name, outFormat) ==
  StripExtension(name) \o <<"_", "l", "o", "o", "p">> \o Extension(outFormat)

\* A form field's text: empty, not a number, or the decimal text of v.
Field(t, v) == [t |-> t, v |-> v]

\* main.js:202-203  parseFloat(field.value || "0"); v is a numerator over TimeDen
ParseSeconds(field) ==
  IF field.t = "empty" THEN Num(0)
  ELSE IF field.t = "text" THEN NaN
  ELSE Num(field.v)

\* main.js:204-212  parseInt(field.value || dflt, 10)
ParseInt(field, dflt) ==
  IF field.t = "empty" THEN Num(dflt)
  ELSE IF field.t = "text" THEN NaN
  ELSE Num(field.v)

\* main.js:222-223  NaN becomes the default, then the value is clamped to [0, 10]
ClampQuality(q) == Min(10, Max(0, IF q.nan THEN DefaultQuality ELSE q.v))

\* a > b on parsed numbers: false when either is NaN
Gt(a, b) == ~a.nan /\ ~b.nan /\ a.v > b.v

\* faulty variant of ConfigError: an end equal to the start passes validation
ConfigError_allowEqual(files, startSec, endSec) ==
  IF Len(files) = 0 THEN "noFiles"
  ELSE IF Gt(startSec, endSec) \/ startSec.nan \/ endSec.nan THEN "badRange"
  ELSE ""

\* main.js:214-221  the configuration error of a run, "" when there is none
ConfigError(files, startSec, endSec) ==
  IF Len(files) = 0 THEN "noFiles"
  ELSE IF ~Gt(endSec, startSec) THEN "badRange"
  ELSE ""

\* main.js:199-212,222-228  the parameters a click reads from the form
ReadParams(d) ==
  [startSec |-> ParseSeconds(d.startSec),
   endSec |-> ParseSeconds(d.endSec),
   searchRadius |-> ParseInt(d.searchRadius, DefaultRadius),
   outFormat |-> d.outFormat,
   oggQuality |-> ClampQuality(ParseInt(d.oggQuality, DefaultQuality))]

\* ============================================================ one file
\* faulty variant of RawIndex: the index is not clamped to the last frame
RawIndex_noUpperClamp(sec, sr, length) == Max(0, (sec.v * sr) \div TimeDen)

\* main.js:144-151  Math.max(0, Math.min(buffer.length - 1, Math.floor(sec * sr)))
RawIndex(sec, sr, length) == Max(0, Min(length - 1, (sec.v * sr) \div TimeDen))

\* faulty variant of Rejected: equal indices are let through
Rejected_strict(startIdx, endIdx) == endIdx < startIdx

\* main.js:157  if (endIdx <= startIdx)
Rejected(startIdx, endIdx) == endIdx <= startIdx

\* main.js:100-107, 110-131  an encoder function is called: without its library
\* it throws at once; otherwise the library (an opaque service) returns a blob
\* or throws, which is serviceOk.  The promise it returns is settled by then.
\* The bytes of a compressed blob stand for what the library was fed: the
\* number of samples (Ogg) or the 16-bit samples (MP3).
CallEncoder(outFormat, mono, sr, libs, serviceOk) ==
  IF outFormat = "ogg" /\ ~libs.ogg THEN [ok |-> FALSE, reason |-> "OggVorbisEncoder missing", type |-> "", bytes |-> <<>>]
  ELSE IF outFormat = "mp3" /\ ~libs.lame THEN [ok |-> FALSE, reason |-> "lamejs missing", type |-> "", bytes |-> <<>>]
  ELSE IF ~serviceOk THEN [ok |-> FALSE, reason |-> "encoder error", type |-> "", bytes |-> <<>>]
  ELSE IF outFormat = "ogg" THEN [ok |-> TRUE, reason |-> "", type |-> "audio/ogg", bytes |-> <<Len(mono)>>]
  ELSE [ok |-> TRUE, reason |-> "", type |-> "audio/mpeg", bytes |-> FloatToPcm16(mono)]

\* What the encoder library can do when it is reached: return (TRUE) or throw
\* (FALSE); it is reached for Ogg and MP3 with the library loaded
ServiceOutcomes(outFormat, libs) ==
  IF (outFormat = "ogg" /\ libs.ogg) \/ (outFormat = "mp3" /\ libs.lame)
  THEN BOOLEAN ELSE {TRUE}

NoBlob == [ok |-> FALSE, reason |-> "", type |-> "", bytes |-> <<>>]

\* A step of processSingleFile: a line it logs or a function it calls
LogStep(line) == [op |-> "log", line |-> line]
CallStep(op) == [op |-> op, line |-> NoLine]
LogSteps(lines) == [j \in 1..Len(lines) |-> LogStep(lines[j])]

\* main.js:143-183  processSingleFile from the decoded buffer to its first
\* suspension or return.  status: "rejected" and "unsupported" are the returns
\* at 159 and 182, "encoding" is the await at 174/179, "encoded" is a WAV blob
\* ready at 176.  calls lists what was invoked and lines what was logged;
\* steps has both in the order of the code (the downmix at 169 comes before
\* the format's line at 173, 178 or 181).
ProcessDecoded(name, buffer, params, libs, serviceOk) ==
  LET sr == buffer.sampleRate
      length == Len(buffer.channels[1])
      rawStart == RawIndex(params.startSec, sr, length)
      rawEnd == RawIndex(params.endSec, sr, length)
      samplesCh0 == buffer.channels[1]
      startIdx == findNearestZeroCross(samplesCh0, rawStart, params.searchRadius)
      endIdx == findNearestZeroCross(samplesCh0, rawEnd, params.searchRadius)
      base == [rawStart |-> rawStart, rawEnd |-> rawEnd,
               startIdx |-> startIdx, endIdx |-> endIdx]
      info == << Line("range", NoName, "",
                      ToFixed3(params.startSec.v, TimeDen) \o ToFixed3(params.endSec.v, TimeDen)),
                 Line("adjusted", NoName, "", ToFixed3(startIdx, sr) \o ToFixed3(endIdx, sr)),
                 Line("samples", NoName, "", <<startIdx, endIdx, endIdx - startIdx>>) >>
      oggLine == Line("oggQuality", NoName, "", <<params.oggQuality>>)
      mp3Line == Line("mp3", NoName, "", <<>>)
      fmtError == Line("error", NoName, params.outFormat, <<>>)
      mono == extractMonoSamples(buffer, startIdx, endIdx)
      fmt == params.outFormat
  IN IF Rejected(startIdx, endIdx)
     THEN base @@ [status |-> "rejected", calls |-> <<>>, mono |-> <<>>, blob |-> NoBlob,
                   lines |-> << Line("error", name, "end not after start", <<>>) >>,
                   steps |-> << LogStep(Line("error", name, "end not after start", <<>>)) >>]
     ELSE IF fmt = "ogg"
     THEN base @@ [status |-> "encoding", calls |-> <<"downmix", "encode">>, mono |-> mono,
                   blob |-> CallEncoder(fmt, mono, sr, libs, serviceOk),
                   lines |-> info \o << oggLine >>,
                   steps |-> LogSteps(info) \o << CallStep("downmix"), LogStep(oggLine), CallStep("encode") >>]
     ELSE IF fmt = "wav"
     THEN base @@ [status |-> "encoded", calls |-> <<"downmix", "encode">>, mono |-> mono,
                   blob |-> [ok |-> TRUE, reason |-> "", type |-> "audio/wav",
                             bytes |-> monoFloatToWavBlob(mono, sr)],
                   lines |-> info,
                   steps |-> LogSteps(info) \o << CallStep("downmix"), CallStep("encode") >>]
     ELSE IF fmt = "mp3"
     THEN base @@ [status |-> "encoding", calls |-> <<"downmix", "encode">>, mono |-> mono,
                   blob |-> CallEncoder(fmt, mono, sr, libs, serviceOk),
                   lines |-> info \o << mp3Line >>,
                   steps |-> LogSteps(info) \o << CallStep("downmix"), LogStep(mp3Line), CallStep("encode") >>]
     ELSE base @@ [status |-> "unsupported", calls |-> <<"downmix">>, mono |-> mono, blob |-> NoBlob,
                   lines |-> info \o << fmtError >>,
                   steps |-> LogSteps(info) \o << CallStep("downmix"), LogStep(fmtError) >>]

\* main.js:185-193  the download and the line that reports it
Download(name, outFormat, blob) ==
  [name |-> DownloadName(name, outFormat), type |-> blob.type, bytes |-> blob.bytes]

DoneLine(name, outFormat) == Line("done", DownloadName(name, outFormat), "", <<>>)


\* ============================================================ the run handler
\* An event of an invocation's history: what it called and what it logged
\* while processing its file number `file` (0: outside any file).
Event(file, op, x, y, line) == [file |-> file, op |-> op, x |-> x, y |-> y, line |-> line]
Call(file, op) == Event(file, op, 0, 0, NoLine)
Logged(file, line) == Event(file, "log", 0, 0, line)

LogEvents(file, lines) == [j \in 1..Len(lines) |-> Logged(file, lines[j])]

Settled(ok, reason) == [ok |-> ok, reason |-> reason]

\* A promise reaction (the continuation after an await on a promise that is
\* already settled) is a microtask: it runs before the event loop takes its
\* next task, so no click and no read or decode completion comes in between.
MicrotaskPending == \E k \in 1..Len(inv) : inv[k].pc \in {"encode", "settled"}

\* main.js:137-139  processSingleFile is called for file i: its first line,
\* then file.arrayBuffer() and the await on it
BeginLine(self, i) == Line("begin", self.files[i].name, "", <<>>)

BeginFile(self, i) ==
  [self EXCEPT !.pc = "read", !.i = i,
               !.trace = @ \o << Call(i, "process"), Logged(i, BeginLine(self, i)), Call(i, "read") >>]

\* faulty variant of AfterFile: no try/catch around the call, the rejection ends the handler
AfterFile_uncaught(self) ==
  IF ~self.settle.ok
  THEN [lines |-> <<>>, self |-> [self EXCEPT !.pc = "done"]]
  ELSE IF self.i < Len(self.files)
  THEN [lines |-> << BeginLine(self, self.i + 1) >>, self |-> BeginFile(self, self.i + 1)]
  ELSE [lines |-> << Line("allDone", NoName, "", <<>>) >>,
        self |-> [self EXCEPT !.pc = "done",
                              !.trace = @ \o << Logged(0, Line("allDone", NoName, "", <<>>)) >>]]

\* main.js:230-239  after `await processSingleFile(file, params)`: the catch
\* clause logs a rejection, then the loop takes the next file or the handler
\* logs its last line.  Gives the lines logged and the invocation afterwards.
AfterFile(self) ==
  LET caught == IF self.settle.ok THEN <<>>
                ELSE << Line("error", self.files[self.i].name, self.settle.reason, <<>>) >>
      s1 == [self EXCEPT !.trace = @ \o LogEvents(self.i, caught)]
  IN IF self.i < Len(self.files)
     THEN [lines |-> caught \o << BeginLine(self, self.i + 1) >>, self |-> BeginFile(s1, self.i + 1)]
     ELSE [lines |-> caught \o << Line("allDone", NoName, "", <<>>) >>,
           self |-> [s1 EXCEPT !.pc = "done",
                               !.trace = @ \o << Logged(0, Line("allDone", NoName, "", <<>>)) >>]]

\* main.js:197-232  a click on the run button, up to the handler's first await
Click ==
  /\ Len(inv) < MaxClicks
  /\ ~MicrotaskPending
  /\ LET files == dom.files
         params == ReadParams(dom)
         err == ConfigError(files, params.startSec, params.endSec)
         new == [pc |-> "done", files |-> files, params |-> params, i |-> 0,
                 blob |-> NoBlob, settle |-> Settled(TRUE, ""), trace |-> <<>>]
         head == << Line("count", NoName, "", <<Len(files)>>),
                    Line("settings", NoName, params.outFormat,
                         NumberToString(params.startSec) \o NumberToString(params.endSec)
                           \o NumberToString(params.searchRadius)) >>
     IN IF err # ""
        THEN /\ logText' = << Line(err, NoName, "", <<>>) >>
             /\ inv' = Append(inv, [new EXCEPT !.trace = << Logged(0, Line(err, NoName, "", <<>>)) >>])
        ELSE /\ logText' = head \o << BeginLine(new, 1) >>
             /\ inv' = Append(inv, BeginFile([new EXCEPT !.trace = LogEvents(0, head)], 1))
  /\ UNCHANGED <<dom, downloads, input, output>>

\* main.js:139-141  file.arrayBuffer() is fulfilled: decodeAudioData is called
ReadResolve(k) ==
  /\ inv[k].pc = "read"
  /\ ~MicrotaskPending
  /\ inv[k].files[inv[k].i].kind # "unreadable"
  /\ inv' = [inv EXCEPT ![k].pc = "decode", ![k].trace = @ \o << Call(inv[k].i, "decode") >>]
  /\ UNCHANGED <<dom, logText, downloads, input, output>>

\* main.js:139  file.arrayBuffer() is rejected: processSingleFile throws
ReadReject(k) ==
  /\ inv[k].pc = "read"
  /\ ~MicrotaskPending
  /\ inv[k].files[inv[k].i].kind = "unreadable"
  /\ inv' = [inv EXCEPT ![k].pc = "settled", ![k].settle = Settled(FALSE, "read error")]
  /\ UNCHANGED <<dom, logText, downloads, input, output>>

\* main.js:141  decodeAudioData is rejected: processSingleFile throws
DecodeReject(k) ==
  /\ inv[k].pc = "decode"
  /\ ~MicrotaskPending
  /\ inv[k].files[inv[k].i].kind = "corrupt"
  /\ inv' = [inv EXCEPT ![k].pc = "settled", ![k].settle = Settled(FALSE, "decode error")]
  /\ UNCHANGED <<dom, logText, downloads, input, output>>

\* main.js:141-193  decodeAudioData is fulfilled: processSingleFile runs on to
\* its return (rejection, unsupported format, WAV written and downloaded) or
\* to the await on the Ogg / MP3 encoder function
DecodeResolve(k) ==
  /\ inv[k].pc = "decode"
  /\ ~MicrotaskPending
  /\ inv[k].files[inv[k].i].kind = "audio"
  /\ \E serviceOk \in ServiceOutcomes(inv[k].params.outFormat, dom.libs) :
     \E r \in { ProcessDecoded(inv[k].files[inv[k].i].name, inv[k].files[inv[k].i].buffer,
                                inv[k].params, dom.libs, serviceOk) } :
       LET self == inv[k]
           i == self.i
           file == self.files[i]
           seen == << Call(i, "decoded"), Event(i, "locate", r.startIdx, r.endIdx, NoLine) >>
                   \o [j \in 1..Len(r.steps) |->
                         IF r.steps[j].op = "log" THEN Logged(i, r.steps[j].line)
                         ELSE Event(i, r.steps[j].op, r.startIdx, r.endIdx, NoLine)]
           fmt == self.params.outFormat
       IN IF r.status = "encoded"
          THEN /\ logText' = logText \o r.lines \o << DoneLine(file.name, fmt) >>
               /\ downloads' = Append(downloads, Download(file.name, fmt, r.blob))
               /\ inv' = [inv EXCEPT ![k].pc = "settled", ![k].settle = Settled(TRUE, ""),
                                     ![k].trace = @ \o seen
                                        \o << Call(i, "encoded"),
                                              Event(i, "download", 0, 0, DoneLine(file.name, fmt)),
                                              Logged(i, DoneLine(file.name, fmt)) >>]
          ELSE IF r.status = "encoding"
          THEN /\ logText' = logText \o r.lines
               /\ downloads' = downloads
               /\ inv' = [inv EXCEPT ![k].pc = "encode", ![k].blob = r.blob,
                                     ![k].trace = @ \o seen]
          ELSE /\ logText' = logText \o r.lines
               /\ downloads' = downloads
               /\ inv' = [inv EXCEPT ![k].pc = "settled", ![k].settle = Settled(TRUE, ""),
                                     ![k].trace = @ \o seen]
  /\ UNCHANGED <<dom, input, output>>

\* main.js:174,179,185-193  the await on the encoder function resumes: its
\* rejection is thrown on, its blob is downloaded and reported
EncodeResume(k) ==
  /\ inv[k].pc = "encode"
  /\ LET self == inv[k]
         i == self.i
         file == self.files[i]
         fmt == self.params.outFormat
     IN IF self.blob.ok
        THEN /\ logText' = Append(logText, DoneLine(file.name, fmt))
             /\ downloads' = Append(downloads, Download(file.name, fmt, self.blob))
             /\ inv' = [inv EXCEPT ![k].pc = "settled", ![k].settle = Settled(TRUE, ""),
                                   ![k].blob = NoBlob,
                                   ![k].trace = @ \o << Call(i, "encoded"),
                                                        Event(i, "download", 0, 0, DoneLine(file.name, fmt)),
                                                        Logged(i, DoneLine(file.name, fmt)) >>]
        ELSE /\ logText' = logText
             /\ downloads' = downloads
             /\ inv' = [inv EXCEPT ![k].pc = "settled", ![k].blob = NoBlob,
                                   ![k].settle = Settled(FALSE, self.blob.reason)]
  /\ UNCHANGED <<dom, input, output>>

\* main.js:230-239  the await on processSingleFile resumes
FileSettled(k) ==
  /\ inv[k].pc = "settled"
  /\ LET a == AfterFile(inv[k])
     IN /\ logText' = logText \o a.lines
        /\ inv' = [inv EXCEPT ![k] = a.self]
  /\ UNCHANGED <<dom, downloads, input, output>>


\* ============================================================ inputs
\* All sequences over S of length lo..hi
SeqsOf(S, lo, hi) == UNION {[1..n -> S] : n \in lo..hi}

\* A decoded AudioBuffer: its sample rate and its channels, all of one length
Buffer(sr, channels) == [sampleRate |-> sr, channels |-> channels]
NoBuffer == Buffer(0, << <<>> >>)

\* A selected file: its name and what reading and decoding it gives
File(name, kind, buffer) == [name |-> name, kind |-> kind, buffer |-> buffer]

Catalogue ==
  << File(<<"b", ".", "m", "p", "3">>, "corrupt", NoBuffer),
     File(<<"a", ".", "w", "a", "v">>, "audio", Buffer(16384, << <<2, -2, -2, 4, 4>> >>)),
     File(<<"c", ".", "x", ".", "o", "g", "g">>, "audio",
          Buffer(8192, << <<0, 4, 4, 4>>, <<3, 0, -3, 8>>, <<-4, 1, -4, -5>> >>)) >>

Unreadable == File(<<"d">>, "unreadable", NoBuffer)

\* The selections: up to MaxFiles neighbouring files of the catalogue, or the
\* file that cannot be read
FileLists ==
  {SubSeq(Catalogue, w[1], w[1] + w[2] - 1) :
     w \in {v \in (1..Len(Catalogue)) \X (0..MaxFiles) : v[1] + v[2] - 1 <= Len(Catalogue)}}
  \cup {<<Unreadable>>}

\* The forms: valid time ranges (with the default searchRadius, with 0 and
\* with a text that is no number) under the output formats, the MP3 library
\* missing, and three invalid time ranges.
RunForms ==
  LET T1 == [startSec |-> Field("num", 1), endSec |-> Field("num", 3), searchRadius |-> Field("empty", 0)]
      T2 == [startSec |-> Field("empty", 0), endSec |-> Field("num", 2), searchRadius |-> Field("num", 0)]
      T3 == [startSec |-> Field("num", 1), endSec |-> Field("num", 3), searchRadius |-> Field("text", 0)]
      F(fmt, q, ogg, lame) == [outFormat |-> fmt, oggQuality |-> q, libs |-> [ogg |-> ogg, lame |-> lame]]
  IN { T1 @@ F("wav", Field("empty", 0), FALSE, FALSE),
       T2 @@ F("ogg", Field("num", 15), TRUE, FALSE),
       T3 @@ F("flac", Field("text", 0), TRUE, TRUE),
       T2 @@ F("mp3", Field("empty", 0), TRUE, FALSE),
       [startSec |-> Field("num", 3), endSec |-> Field("num", 3), searchRadius |-> Field("empty", 0)]
         @@ F("wav", Field("empty", 0), TRUE, TRUE),
       [startSec |-> Field("num", 1), endSec |-> Field("empty", 0), searchRadius |-> Field("text", 0)]
         @@ F("mp3", Field("num", -1), TRUE, TRUE),
       [startSec |-> Field("text", 0), endSec |-> Field("num", 3), searchRadius |-> Field("num", 1)]
         @@ F("ogg", Field("empty", 0), TRUE, TRUE) }

Libs(ogg, lame) == [ogg |-> ogg, lame |-> lame]

Forms == { [files |-> fl] @@ rf : fl \in FileLists, rf \in RunForms }

IdleForm ==
  [files |-> <<>>, startSec |-> Field("empty", 0), endSec |-> Field("empty", 0),
   searchRadius |-> Field("empty", 0), outFormat |-> "wav",
   oggQuality |-> Field("empty", 0), libs |-> Libs(FALSE, FALSE)]

\* ============================================================ specifications
\* The run handler under clicks and the completions of reads and decodes.
Init ==
  /\ dom \in Forms
  /\ logText = <<>>
  /\ downloads = <<>>
  /\ inv = <<>>
  /\ input = <<>>
  /\ output = <<>>

Next ==
  \/ Click
  \/ \E k \in 1..Len(inv) : ReadResolve(k)
  \/ \E k \in 1..Len(inv) : ReadReject(k)
  \/ \E k \in 1..Len(inv) : DecodeResolve(k)
  \/ \E k \in 1..Len(inv) : DecodeReject(k)
  \/ \E k \in 1..Len(inv) : EncodeResume(k)
  \/ \E k \in 1..Len(inv) : FileSettled(k)

Spec == Init /\ [][Next]_vars

\* The page at rest, for the specifications that study one function.
AtRest ==
  /\ dom = IdleForm
  /\ logText = <<>>
  /\ downloads = <<>>
  /\ inv = <<>>
  /\ output = <<>>

\* ---- findNearestZeroCross on its own
CrossSamples == {-1, 0, 1}

\* Sequences of up to maxLen samples, targets from one before the first to one
\* after the last, radii up to maxRadius and the default
ZeroCrossInputs(maxLen, maxRadius) ==
  { [samples |-> s, targetIndex |-> t, searchRadius |-> Num(r)] :
      s \in SeqsOf(CrossSamples, 0, maxLen),
      t \in -1..maxLen,
      r \in (0..maxRadius) \cup {DefaultRadius} }

InitZeroCross == AtRest /\ input \in ZeroCrossInputs(MaxLen, MaxRadius)

ApplyZeroCross ==
  /\ output = <<>>
  /\ output' = << findNearestZeroCross(input.samples, input.targetIndex, input.searchRadius) >>
  /\ UNCHANGED <<dom, logText, downloads, inv, input>>

SpecZeroCross == InitZeroCross /\ [][ApplyZeroCross]_vars

\* ---- monoFloatToWavBlob on its own
WavSamples == {-6, -4, -1, 0, 1, 4, 6}
SampleRates == {8000, 44100, 768000}

WavInputs(maxLen) ==
  { [samples |-> [i \in 1..Len(s) |-> Float(s[i], FloatExp)], sampleRate |-> sr] :
      s \in SeqsOf(WavSamples, 0, maxLen), sr \in SampleRates }

InitWav == AtRest /\ input \in WavInputs(MaxLen)

ApplyWav ==
  /\ output = <<>>
  /\ output' = << monoFloatToWavBlob(input.samples, input.sampleRate) >>
  /\ UNCHANGED <<dom, logText, downloads, inv, input>>

SpecWav == InitWav /\ [][ApplyWav]_vars

\* ---- processSingleFile on one decoded buffer
\* main.js:143-193  processSingleFile from the decoded buffer to its end: the
\* result of ProcessDecoded, and the download when there is one
RunFile(name, buffer, params, libs, serviceOk) ==
  LET r == ProcessDecoded(name, buffer, params, libs, serviceOk)
      emitted == r.status = "encoded" \/ (r.status = "encoding" /\ r.blob.ok)
  IN [r |-> r,
      frameCount |-> Len(buffer.channels[1]),
      downloads |-> IF emitted THEN << Download(name, params.outFormat, r.blob) >> ELSE <<>>,
      thrown |-> IF r.status = "encoding" /\ ~r.blob.ok THEN r.blob.reason ELSE ""]

FrameSamples == {-2, 0, 2}
Times == {-1, 1, 3, 8}

\* The channels after the first: -0.75, -1.0, 0.25, ... in every frame
OtherChannel(ch, len) == [j \in 1..len |-> IF ch % 2 = 0 THEN -1 - ch ELSE ch - 7]

\* Mono buffers at two sample rates, and buffers of two and three channels
ChannelCounts == {2, 3}

DecodedBuffers(maxLen) ==
  { Buffer(sr, <<c>>) : sr \in {8192, 16384}, c \in SeqsOf(FrameSamples, 1, maxLen) }
  \cup
  { Buffer(8192, [ch \in 1..n |-> IF ch = 1 THEN c ELSE OtherChannel(ch, Len(c))]) :
      n \in ChannelCounts, c \in SeqsOf(FrameSamples, 1, maxLen) }

FileParams ==
  { [startSec |-> Num(a), endSec |-> Num(b), searchRadius |-> r, outFormat |-> f, oggQuality |-> DefaultQuality] :
      a \in Times, b \in Times, r \in {Num(-1), Num(0), Num(1), Num(DefaultRadius), NaN},
      f \in {"wav", "ogg", "mp3", "flac"} }

\* The encoder service is called, and so can fail, for Ogg only: the MP3 library
\* is missing here
FileRuns ==
  { [params |-> p, serviceOk |-> ok] :
      p \in {q \in FileParams : q.endSec.v > q.startSec.v}, ok \in BOOLEAN }

FileInputs(maxLen) ==
  { [name |-> Catalogue[3].name, buffer |-> b, params |-> run.params,
     libs |-> Libs(TRUE, FALSE), serviceOk |-> run.serviceOk] :
      b \in DecodedBuffers(maxLen),
      run \in {q \in FileRuns : q.serviceOk \/ q.params.outFormat = "ogg"} }

InitFile == AtRest /\ input \in FileInputs(MaxLen)

ApplyFile ==
  /\ output = <<>>
  /\ output' = << RunFile(input.name, input.buffer, input.params, input.libs, input.serviceOk) >>
  /\ UNCHANGED <<dom, logText, downloads, inv, input>>

SpecFile == InitFile /\ [][ApplyFile]_vars


\* ============================================================ properties
\* ---- of the run handler (Spec)
EventsOf(self, op) == SelectSeq(self.trace, LAMBDA e : e.op = op)

\* The lines that end a file: its error line or the line reporting its download
Outcomes(self) ==
  SelectSeq(self.trace, LAMBDA e : e.op = "log" /\ e.line.tag \in {"error", "done"})

HasEvent(self, i, op) == \E j \in 1..Len(self.trace) : self.trace[j].file = i /\ self.trace[j].op = op

ErrorEntries(self, i) ==
  {j \in 1..Len(self.trace) :
     self.trace[j].file = i /\ self.trace[j].op = "log" /\ self.trace[j].line.tag = "error"}

\* The run's parameters fail validation: no file, or end not after start
InvalidRun(self) ==
  \/ self.files = <<>>
  \/ self.params.startSec.nan
  \/ self.params.endSec.nan
  \/ self.params.endSec.v <= self.params.startSec.v

\* File i of the run has reached its end
Finished(self, i) == i < self.i \/ (self.pc = "done" /\ i <= self.i)

\* C1: a run that passes validation calls processSingleFile once per file, in
\* input order, whatever happened to the files before; each file gets exactly
\* one outcome (an error line or a download report), in input order; and a
\* finished run has attempted and settled every file.
C1_EveryFileAttemptedOnceInOrder ==
  \A k \in 1..Len(inv) :
    LET self == inv[k]
        P == EventsOf(self, "process")
        O == Outcomes(self)
    IN ~InvalidRun(self) =>
         /\ Len(P) = self.i
         /\ \A j \in 1..Len(P) : P[j].file = j
         /\ \A j \in 1..Len(O) : O[j].file = j
         /\ Len(O) \in {self.i - 1, self.i}
         /\ self.pc \in {"read", "decode", "encode"} => Len(O) = self.i - 1
         /\ self.pc = "done" => self.i = Len(self.files) /\ Len(O) = Len(self.files)

\* a finished run of two files whose first file failed and whose second succeeded
C1_Witness ==
  \E k \in 1..Len(inv) :
    /\ inv[k].pc = "done"
    /\ Len(inv[k].files) = 2
    /\ Len(Outcomes(inv[k])) = 2
    /\ Outcomes(inv[k])[1].line.tag = "error"
    /\ Outcomes(inv[k])[2].line.tag = "done"

\* C2: a click with no file selected, or with an end time that is not after the
\* start time (NaN included), logs the configuration error once and returns:
\* it calls nothing, and when no other run is in progress the log is that line.
C2_ConfigurationErrorStopsRun ==
  \A k \in 1..Len(inv) :
    LET self == inv[k]
    IN InvalidRun(self) =>
         /\ self.pc = "done"
         /\ self.i = 0
         /\ Len(self.trace) = 1
         /\ self.trace[1].op = "log"
         /\ self.trace[1].line.tag = (IF self.files = <<>> THEN "noFiles" ELSE "badRange")
         /\ (k = Len(inv) /\ \A j \in 1..Len(inv) : inv[j].pc = "done")
              => logText = << self.trace[1].line >>

\* a returned run over selected files whose end time equals its start time
C2_Witness ==
  \E k \in 1..Len(inv) :
    /\ inv[k].files # <<>>
    /\ ~inv[k].params.startSec.nan /\ ~inv[k].params.endSec.nan
    /\ inv[k].params.endSec.v = inv[k].params.startSec.v
    /\ inv[k].pc = "done"
    /\ downloads = <<>>

\* C3: a download is triggered for a file only after its decode succeeded, its
\* adjusted end index is above its adjusted start index, the format is known
\* and the encoder returned; a file with an error line has no download; a file
\* whose range was rejected had neither downmix nor encoder called; and the
\* downloads are those the runs triggered.
C3_DownloadOnlyOnSuccess ==
  /\ \A k \in 1..Len(inv) :
       LET self == inv[k]
       IN \A j \in 1..Len(self.trace) :
            LET e == self.trace[j]
            IN /\ e.op = "download" =>
                    /\ HasEvent(self, e.file, "decoded")
                    /\ \E l \in 1..j : /\ self.trace[l].file = e.file
                                       /\ self.trace[l].op = "locate"
                                       /\ self.trace[l].y > self.trace[l].x
                    /\ self.params.outFormat \in {"wav", "mp3", "ogg"}
                    /\ \E l \in 1..j : /\ self.trace[l].file = e.file
                                       /\ self.trace[l].op = "encoded"
                    /\ ErrorEntries(self, e.file) = {}
               /\ (e.op = "locate" /\ e.y <= e.x) =>
                    /\ ~HasEvent(self, e.file, "downmix")
                    /\ ~HasEvent(self, e.file, "encode")
                    /\ ~HasEvent(self, e.file, "download")
  /\ LET Count[k \in 0..Len(inv)] ==
           IF k = 0 THEN 0 ELSE Count[k - 1] + Len(EventsOf(inv[k], "download"))
     IN Len(downloads) = Count[Len(inv)]

\* a run in which one file was downloaded and another was rejected for its range
C3_Witness ==
  \E k \in 1..Len(inv) :
    /\ \E j \in 1..Len(inv[k].trace) : inv[k].trace[j].op = "download"
    /\ \E j \in 1..Len(inv[k].trace) :
         /\ inv[k].trace[j].op = "locate"
         /\ inv[k].trace[j].y <= inv[k].trace[j].x
    /\ inv[k].pc = "done"

\* C4: every file that ended without a download has exactly one error line, and
\* that line shows the file's name and a reason.
C4_FailureNamesFile ==
  \A k \in 1..Len(inv) :
    LET self == inv[k]
    IN \A i \in 1..Len(self.files) :
         (Finished(self, i) /\ ~HasEvent(self, i, "download")) =>
           /\ Cardinality(ErrorEntries(self, i)) = 1
           /\ \A j \in ErrorEntries(self, i) :
                /\ self.trace[j].line.name = self.files[i].name
                /\ self.trace[j].line.text # ""

\* C8: within a run the events of the files follow input order, and while a run
\* is in progress no line leaves the log: each step keeps the log as a prefix
\* of the log after it.
C8_SequentialAppendOnlyLog ==
  [][ /\ \A k \in 1..Len(inv) :
           \A a, b \in 1..Len(inv[k].trace) :
             (a < b /\ inv[k].trace[a].file > 0 /\ inv[k].trace[b].file > 0)
               => inv[k].trace[a].file <= inv[k].trace[b].file
      /\ (\E k \in 1..Len(inv) : inv[k].pc # "done")
           => /\ Len(logText') >= Len(logText)
              /\ SubSeq(logText', 1, Len(logText)) = logText ]_vars


\* ---- of findNearestZeroCross (SpecZeroCross)
\* The crossings of s inside the window of radius r around target t
WindowCrossings(s, t, r) ==
  {i \in 0..(Len(s) - 2) :
     /\ t - r <= i /\ i <= t + r
     /\ (s[i + 1] = 0 \/ s[i + 2] = 0 \/ s[i + 1] * s[i + 2] < 0)}

\* The crossing of the window nearest to t, the lower one on a tie; t without any
NearestCrossing(s, t, r) ==
  LET W == WindowCrossings(s, t, r)
  IN IF W = {} THEN t
     ELSE CHOOSE i \in W :
            \A j \in W : Abs(i - t) < Abs(j - t) \/ (Abs(i - t) = Abs(j - t) /\ i <= j)

\* C5: findNearestZeroCross gives the crossing of its window nearest to the
\* target, the lower index on a tie, and the target itself when the window
\* holds no crossing or the sequence has fewer than two samples.
C5_NearestCrossingLowerOnTie ==
  output # <<>> =>
    /\ output[1] = NearestCrossing(input.samples, input.targetIndex, input.searchRadius.v)
    /\ Len(input.samples) < 2 => output[1] = input.targetIndex

\* a target with no crossing at it and crossings at equal distance on both sides
C5_Witness ==
  /\ output # <<>>
  /\ LET W == WindowCrossings(input.samples, input.targetIndex, input.searchRadius.v)
     IN /\ input.targetIndex \notin W
        /\ input.targetIndex - 1 \in W
        /\ input.targetIndex + 1 \in W
  /\ output[1] = input.targetIndex - 1

\* ---- of monoFloatToWavBlob (SpecWav)
\* A reader of the container: little-endian fields at 0-based offsets
ReadU16(b, off) == b[off + 1] + 256 * b[off + 2]
ReadU32(b, off) == b[off + 1] + 256 * b[off + 2] + 65536 * b[off + 3] + 16777216 * b[off + 4]
ReadI16(b, off) == IF ReadU16(b, off) >= 32768 THEN ReadU16(b, off) - 65536 ELSE ReadU16(b, off)

\* The 16-bit value of sample s: clamped to [-1, 1], negatives scaled by 32768,
\* the others by 32767, the fraction dropped
Pcm16Of(s) ==
  IF s.num <= -(2^s.exp) THEN -32768
  ELSE IF s.num >= 2^s.exp THEN 32767
  ELSE IF s.num < 0 THEN -((-s.num * 32768) \div 2^s.exp)
  ELSE (s.num * 32767) \div 2^s.exp

\* C7: read as a 44-byte-header little-endian mono 16-bit PCM container, the
\* output has total size 36 + 2n = length - 8, format PCM, one channel, the
\* sample rate, byte rate 2 * rate, block align 2, 16 bits, data size 2n, and
\* n samples equal to the quantized input, each in [-32768, 32767], with
\* 1.0 -> 32767, -1.0 -> -32768 and 0.0 -> 0.
C7_WavRoundTrip ==
  output # <<>> =>
    LET b == output[1]
        n == Len(input.samples)
    IN /\ Len(b) = WavHeaderBytes + 2 * n
       /\ SubSeq(b, 1, 4) = <<82, 73, 70, 70>>
       /\ ReadU32(b, 4) = 36 + 2 * n
       /\ ReadU32(b, 4) = Len(b) - 8
       /\ SubSeq(b, 9, 16) = <<87, 65, 86, 69, 102, 109, 116, 32>>
       /\ ReadU32(b, 16) = 16
       /\ ReadU16(b, 20) = 1
       /\ ReadU16(b, 22) = 1
       /\ ReadU32(b, 24) = input.sampleRate
       /\ ReadU32(b, 28) = 2 * input.sampleRate
       /\ ReadU16(b, 32) = 2
       /\ ReadU16(b, 34) = 16
       /\ SubSeq(b, 37, 40) = <<100, 97, 116, 97>>
       /\ ReadU32(b, 40) = 2 * n
       /\ \A i \in 1..n :
            LET v == ReadI16(b, WavHeaderBytes + 2 * (i - 1))
            IN /\ v = Pcm16Of(input.samples[i])
               /\ v >= -32768 /\ v <= 32767
               /\ input.samples[i].num = 2^input.samples[i].exp => v = 32767
               /\ input.samples[i].num = -(2^input.samples[i].exp) => v = -32768
               /\ input.samples[i].num = 0 => v = 0
       /\ \A j \in 1..Len(b) : b[j] \in 0..255

\* a written buffer holding full scale of both signs, a sample above full
\* scale and a sample whose scaled value has a fraction
C7_Witness ==
  /\ output # <<>>
  /\ input.sampleRate = 44100
  /\ input.samples = << Float(FloatDen, FloatExp), Float(-FloatDen, FloatExp),
                        Float(6, FloatExp), Float(1, FloatExp) >>
  /\ Len(output[1]) = 52

\* ---- of processSingleFile on a decoded buffer (SpecFile)
\* floor(sec * sr) clamped to the frames of the buffer
ClampedIndex(sec, sr, frameCount) ==
  LET f == (sec * sr) \div TimeDen
  IN IF f < 0 THEN 0 ELSE IF f > frameCount - 1 THEN frameCount - 1 ELSE f

\* C6: with searchRadius 0 the adjusted indices are the raw indices,
\* floor(seconds * sampleRate) clamped to [0, frameCount - 1], and an accepted
\* file written as WAV is downloaded as 44 + 2 * (endIndex - startIndex) bytes.
C6_RadiusZeroKeepsRawRange ==
  (output # <<>> /\ input.params.searchRadius = Num(0)) =>
    LET o == output[1]
        sr == input.buffer.sampleRate
        s == ClampedIndex(input.params.startSec.v, sr, o.frameCount)
        e == ClampedIndex(input.params.endSec.v, sr, o.frameCount)
    IN /\ o.r.rawStart = s /\ o.r.startIdx = s
       /\ o.r.rawEnd = e /\ o.r.endIdx = e
       /\ (e > s /\ input.params.outFormat = "wav") =>
            /\ Len(o.downloads) = 1
            /\ Len(o.downloads[1].bytes) = WavHeaderBytes + 2 * (e - s)

\* radius 0, a crossing right before the start index, and a WAV download
C6_Witness ==
  /\ output # <<>>
  /\ input.params.searchRadius = Num(0)
  /\ input.params.outFormat = "wav"
  /\ output[1].r.startIdx > 0
  /\ (output[1].r.startIdx - 1) \in WindowCrossings(input.buffer.channels[1], output[1].r.startIdx, 1)
  /\ output[1].r.startIdx \notin WindowCrossings(input.buffer.channels[1], output[1].r.startIdx, 1)
  /\ Len(output[1].downloads) = 1
  /\ Len(output[1].downloads[1].bytes) > WavHeaderBytes + 2

\* C9: the raw and the adjusted indices lie in [0, frameCount - 1]; and when
\* downmix is called, it is called with 0 <= startIndex < endIndex <=
\* frameCount - 1 and gives endIndex - startIndex > 0 samples.
C9_IndicesInRange ==
  output # <<>> =>
    LET o == output[1]
        In(x) == 0 <= x /\ x <= o.frameCount - 1
    IN /\ In(o.r.rawStart) /\ In(o.r.rawEnd) /\ In(o.r.startIdx) /\ In(o.r.endIdx)
       /\ (\E j \in 1..Len(o.r.calls) : o.r.calls[j] = "downmix") =>
            /\ 0 <= o.r.startIdx /\ o.r.startIdx < o.r.endIdx /\ o.r.endIdx <= o.frameCount - 1
            /\ Len(o.r.mono) = o.r.endIdx - o.r.startIdx
            /\ Len(o.r.mono) > 0

\* a three-channel buffer downmixed after the requested end was clamped to
\* its last frame, the mean of a frame being a value no fraction over
\* FloatDen * 3 is
C9_Witness ==
  /\ output # <<>>
  /\ Len(input.buffer.channels) = 3
  /\ \E i \in 1..Len(output[1].r.mono) : output[1].r.mono[i].exp > 20
  /\ (input.params.endSec.v * input.buffer.sampleRate) \div TimeDen > output[1].frameCount - 1
  /\ output[1].r.rawEnd = output[1].frameCount - 1
  /\ output[1].r.calls # <<>>
  /\ Len(output[1].r.mono) >= 2

\* C10: findNearestZeroCross is order-preserving in its target, for the first
\* channel of the buffer and every radius; so the adjusted end is never below
\* the adjusted start, and the range is rejected exactly when the two are equal.
C10_AdjustmentPreservesOrder ==
  output # <<>> =>
    LET o == output[1]
        ch0 == input.buffer.channels[1]
        radii == {Num(r) : r \in (0..MaxRadius) \cup {DefaultRadius}} \cup {input.params.searchRadius}
    IN /\ \A r \in radii :
            LET f == [a \in -1..(Len(ch0) + 1) |-> findNearestZeroCross(ch0, a, r)]
            IN \A a, b \in DOMAIN f : a <= b => f[a] <= f[b]
       /\ o.r.rawEnd >= o.r.rawStart
       /\ o.r.endIdx >= o.r.startIdx
       /\ (o.r.status = "rejected") <=> (o.r.endIdx = o.r.startIdx)

\* a rejected file whose raw end index was above its raw start index
C10_Witness ==
  /\ output # <<>>
  /\ output[1].r.status = "rejected"
  /\ output[1].r.rawEnd > output[1].r.rawStart
  /\ output[1].r.endIdx = output[1].r.startIdx

=============================================================================
